---- MODULE Spec2Model ----
(***************************************************************************)
(* Model of the chat route (src/app/api/chat/route.ts): one POST handler   *)
(* that classifies the latest message, optionally embeds it and queries    *)
(* the vector store, streams a completion and records memories; of the     *)
(* chat page (src/unnamed/part_000) that calls it; and of the logging      *)
(* route (src/app/api/logging/route.ts) the page reports each turn to.     *)
(* Spec is the chat route, ClassifierSpec its isGreeting alone, PageSpec   *)
(* the page, LoggingSpec the logging route.                                *)
(*                                                                         *)
(* Text is modelled as a sequence of one-character strings, so that the    *)
(* regular expressions of isGreeting, trim, toLowerCase and join are       *)
(* computed character by character.  A character outside ASCII is written  *)
(* as its code point ("U+1F44B"); the two long prompt templates are each   *)
(* one opaque character.                                                   *)
(***************************************************************************)
EXTENDS Integers, Sequences, FiniteSets, TLC

(***************************************************************************)
(* Bounds of the model.                                                    *)
(***************************************************************************)
\* longest prior history (messages before the latest one) of a request
MaxHistory == 2

(***************************************************************************)
(* Text helpers: String.prototype.trim, toLowerCase, Array.prototype.join. *)
(***************************************************************************)
WhiteSpace == {" ", "\t", "\n"}

UpperCase == <<"A","B","C","D","E","F","G","H","I","J","K","L","M",
               "N","O","P","Q","R","S","T","U","V","W","X","Y","Z">>

LowerCase == <<"a","b","c","d","e","f","g","h","i","j","k","l","m",
               "n","o","p","q","r","s","t","u","v","w","x","y","z">>

toLowerChar(c) ==
    IF \E i \in DOMAIN UpperCase : UpperCase[i] = c
    THEN LowerCase[CHOOSE i \in DOMAIN UpperCase : UpperCase[i] = c]
    ELSE c

toLowerCase(s) == [i \in DOMAIN s |-> toLowerChar(s[i])]

RECURSIVE trimStart(_)
trimStart(s) ==
    IF s # <<>> /\ Head(s) \in WhiteSpace THEN trimStart(Tail(s)) ELSE s

RECURSIVE trimEnd(_)
trimEnd(s) ==
    IF s # <<>> /\ s[Len(s)] \in WhiteSpace
    THEN trimEnd(SubSeq(s, 1, Len(s) - 1))
    ELSE s

trim(s) == trimEnd(trimStart(s))

RECURSIVE join(_, _)
join(parts, sep) ==
    IF parts = <<>> THEN <<>>
    ELSE IF Len(parts) = 1 THEN parts[1]
    ELSE parts[1] \o sep \o join(Tail(parts), sep)

startsWith(s, p) == Len(s) >= Len(p) /\ SubSeq(s, 1, Len(p)) = p

(***************************************************************************)
(* isGreeting: three anchored, case-insensitive patterns, each a group of  *)
(* phrases followed by a terminator class; "$" is the end of the string.   *)
(***************************************************************************)
Salutations ==
    { <<"h","i">>, <<"h","e","l","l","o">>, <<"h","e","y">>,
      <<"g","o","o","d"," ","m","o","r","n","i","n","g">>,
      <<"g","o","o","d"," ","a","f","t","e","r","n","o","o","n">>,
      <<"g","o","o","d"," ","e","v","e","n","i","n","g">>,
      <<"g","r","e","e","t","i","n","g","s">> }

HowAreYou ==
    { <<"h","o","w"," ","a","r","e"," ","y","o","u">>,
      <<"w","h","a","t","'","s"," ","u","p">>,
      <<"w","a","s","s","u","p">>, <<"s","u","p">> }

ForeignSalutations ==
    { <<"h","o","l","a">>, <<"b","o","n","j","o","u","r">>,
      <<"h","a","l","l","o">>, <<"c","i","a","o">> }

\* a pattern without its (t|$) group
testPattern_prefixOnly(phrases, terminators, s) ==
    \E p \in phrases : startsWith(s, p)

\* /^(p1|p2|...)(t|$)/ tested on s, for the phrases p and the terminators t
testPattern(phrases, terminators, s) ==
    \E p \in phrases :
        /\ startsWith(s, p)
        /\ IF Len(s) = Len(p) THEN TRUE ELSE s[Len(p) + 1] \in terminators

greetingPatterns ==
    << [phrases |-> Salutations,        terminators |-> WhiteSpace],
       [phrases |-> HowAreYou,          terminators |-> WhiteSpace \cup {"?"}],
       [phrases |-> ForeignSalutations, terminators |-> WhiteSpace] >>

isGreeting(query) ==
    \E k \in DOMAIN greetingPatterns :
        testPattern(greetingPatterns[k].phrases,
                    greetingPatterns[k].terminators,
                    toLowerCase(trim(query)))

(***************************************************************************)
(* getGreetingResponse: one of five fixed replies, chosen at random.       *)
(***************************************************************************)
greetings ==
    << <<"U+1F44B"," ","H","e","l","l","o","!"," ","H","o","w"," ","c","a","n"," ","I"," ","a","s","s","i","s","t"," ","y","o","u"," ","t","o","d","a","y","?">>,
       <<"H","i"," ","t","h","e","r","e","!"," ","U+1F60A"," ","W","h","a","t"," ","c","a","n"," ","I"," ","h","e","l","p"," ","y","o","u"," ","w","i","t","h","?">>,
       <<"U+1F44B"," ","H","e","y","!"," ","R","e","a","d","y"," ","t","o"," ","h","e","l","p"," ","y","o","u"," ","w","i","t","h"," ","a","n","y"," ","q","u","e","s","t","i","o","n","s","!">>,
       <<"H","e","l","l","o","!"," ","U+1F31F"," ","H","o","w"," ","m","a","y"," ","I"," ","b","e"," ","o","f"," ","a","s","s","i","s","t","a","n","c","e","?">>,
       <<"H","i","!"," ","U+1F603"," ","L","o","o","k","i","n","g"," ","f","o","r","w","a","r","d"," ","t","o"," ","h","e","l","p","i","n","g"," ","y","o","u"," ","t","o","d","a","y","!">> >>

\* the values Math.floor(Math.random() * greetings.length) can take
getGreetingResponse == { greetings[i] : i \in 1..Len(greetings) }

(***************************************************************************)
(* Personas and their system prompt templates.                             *)
(***************************************************************************)
Persona == {"general", "roleplay"}

\* a validity test that accepts any value
isValidPersona_acceptsAll(persona) == TRUE

isValidPersona(persona) == persona \in Persona

\* SYSTEM_PROMPTS[p]; undefined (no text) for a key that is not a persona
SYSTEM_PROMPTS(p) ==
    CASE p = "general"  -> << "<SYSTEM_PROMPTS.general>" >>
      [] p = "roleplay" -> << "<SYSTEM_PROMPTS.roleplay>" >>
      [] OTHER          -> << "undefined" >>

\* a prompt that leaves the context section out when there is no context
systemPromptOf_omitsEmptySection(persona, similarContent) ==
    IF similarContent = <<>> THEN SYSTEM_PROMPTS(persona)
    ELSE SYSTEM_PROMPTS(persona) \o <<"\n", "\n">>
            \o <<"D","o","c","u","m","e","n","t","a","t","i","o","n"," ",
                 "C","o","n","t","e","x","t",":"," ">>
            \o similarContent

\* the template literal of lines 228-230
systemPromptOf(persona, similarContent) ==
    SYSTEM_PROMPTS(persona) \o <<"\n", "\n">>
        \o <<"D","o","c","u","m","e","n","t","a","t","i","o","n"," ",
             "C","o","n","t","e","x","t",":"," ">>
        \o similarContent

(***************************************************************************)
(* The vector store: table documents_2, and the query of                   *)
(* findSimilarContent.  Vectors are small integer vectors; the cosine      *)
(* similarity 1 - (vector <=> $1) is compared exactly, through squares.    *)
(***************************************************************************)
documents_2 ==
    << [contents |-> <<"P","1">>, vector |-> <<1, 0>>],
       [contents |-> <<"P","2">>, vector |-> <<2, 0>>],
       [contents |-> <<"P","3">>, vector |-> <<4, 1>>],
       [contents |-> <<"P","4">>, vector |-> <<3, 1>>],
       [contents |-> <<"P","5">>, vector |-> <<2, 1>>],
       [contents |-> <<"P","6">>, vector |-> <<3, 2>>],
       [contents |-> <<"P","7">>, vector |-> <<1, 1>>],
       [contents |-> <<"P","8">>, vector |-> <<0, 1>>] >>

RECURSIVE dot(_, _)
dot(a, b) ==
    IF a = <<>> \/ b = <<>> THEN 0
    ELSE Head(a) * Head(b) + dot(Tail(a), Tail(b))

\* similarity(e, a) > similarity(e, b)
moreSimilar(e, a, b) ==
    LET da == dot(e, a)  na == dot(a, a)
        db == dot(e, b)  nb == dot(b, b)
    IN  CASE da >= 0 /\ db < 0  -> TRUE
          [] da < 0  /\ db >= 0 -> FALSE
          [] da >= 0 /\ db >= 0 -> da * da * nb > db * db * na
          [] OTHER              -> da * da * nb < db * db * na

\* WHERE 1 - (vector <=> $1::vector) > 0.7
aboveThreshold(e, v) ==
    /\ dot(e, v) > 0
    /\ 100 * dot(e, v) * dot(e, v) > 49 * dot(e, e) * dot(v, v)

LIMIT == 5

\* ORDER BY similarity DESC LIMIT k over the rows S: every order the store
\* may return (rows of equal similarity come in an unspecified order)
RECURSIVE orderByLimit(_, _, _)
orderByLimit(e, S, k) ==
    IF k = 0 \/ S = {} THEN { <<>> }
    ELSE UNION { { <<i>> \o rest : rest \in orderByLimit(e, S \ {i}, k - 1) } :
                 i \in { x \in S : \A y \in S :
                           ~moreSimilar(e, documents_2[y].vector,
                                           documents_2[x].vector) } }

\* a query without its LIMIT clause
queryRows_noLimit(e) ==
    orderByLimit(e,
                 { i \in DOMAIN documents_2 :
                     aboveThreshold(e, documents_2[i].vector) },
                 Len(documents_2))

\* result.rows of pool.query(query, [vectorString]), as row indices
queryRows(e) ==
    orderByLimit(e,
                 { i \in DOMAIN documents_2 :
                     aboveThreshold(e, documents_2[i].vector) },
                 LIMIT)

\* result.rows.map(row => row.contents).join('\n\n')
contextOf(rows) ==
    join([k \in DOMAIN rows |-> documents_2[rows[k]].contents], <<"\n", "\n">>)

(***************************************************************************)
(* Requests the handler can receive, and what the providers can answer.    *)
(***************************************************************************)
Hello     == <<"H","e","l","l","o">>
HiThere   == <<" ","H","i"," ","t","h","e","r","e"," ">>
SupQ      == <<"s","u","p","?">>
WhatIsAWP == <<"W","h","a","t"," ","i","s"," ","A","W","P","?">>
SayHi     == <<"s","a","y"," ","h","i">>
Highway   == <<"h","i","g","h","w","a","y">>
Sure      == <<"S","u","r","e",".">>

Queries == { Hello, HiThere, SupQ, WhatIsAWP, SayHi, Highway }

\* messages that may precede the latest one
HistoryMessages ==
    { [role |-> "user",      content |-> WhatIsAWP],
      [role |-> "assistant", content |-> Sure, id |-> "m1"],
      [role |-> "system",    content |-> SayHi] }

RECURSIVE Histories(_)
Histories(n) ==
    IF n = 0 THEN { <<>> }
    ELSE Histories(n - 1) \cup
         { Append(h, m) : h \in { x \in Histories(n - 1) : Len(x) = n - 1 },
                          m \in HistoryMessages }

\* the latest message: any role, with a content or without one
LatestMessages ==
    { [role |-> r, content |-> q] : r \in {"user", "assistant"}, q \in Queries }
        \cup { [role |-> "user"] }

MessageLists ==
    { <<>> } \cup { Append(h, m) : h \in Histories(MaxHistory), m \in LatestMessages }

UserIds == { "u1" }

PersonaValues == { "general", "roleplay", "spanish", "General" }

\* parsed JSON bodies: objects whose fields messages and persona are optional
Bodies ==
    { [messages |-> ms, userId |-> u, persona |-> p] :
        ms \in MessageLists, u \in UserIds, p \in PersonaValues }
    \cup { [messages |-> ms, userId |-> u] : ms \in MessageLists, u \in UserIds }
    \cup { [userId |-> u, persona |-> p] : u \in UserIds, p \in PersonaValues }

\* a request: its body text parses as JSON (json) to body, or does not
Requests ==
    { [json |-> TRUE, body |-> b] : b \in Bodies }
        \cup { [json |-> FALSE, body |-> <<>>] }

\* vectors the embedding provider can return
Embeddings == { <<1, 0>>, <<0, 1>>, <<-1, 0>>, <<1, 1>> }

\* texts the completion provider can generate
ModelOutputs == { Sure, greetings[1] }

\* what a rejected provider call can carry
ProviderErrors == { "rate limit exceeded", "network unreachable" }

ExternalCalls == { "embedding", "query", "completion", "memory" }

(***************************************************************************)
(* A run of isGreeting on its own: the string it is given, written as a    *)
(* prefix, a word and a suffix, and what it returned.                      *)
(***************************************************************************)
VARIABLES
    classified          \* the last call of isGreeting and its result

classifierVars == << classified >>

\* what may stand before the word; blank tells whether trim removes it all
QueryPrefixes ==
    { [text |-> <<>>,                blank |-> TRUE],
      [text |-> <<" ">>,             blank |-> TRUE],
      [text |-> <<"\t", "\n">>,      blank |-> TRUE],
      [text |-> <<"s","a","y"," ">>, blank |-> FALSE],
      [text |-> <<"x">>,             blank |-> FALSE] }

\* what may stand after the word; next tells what follows the word once the
\* string is trimmed: its end, a white space, a question mark, or another
\* character
QuerySuffixes ==
    { [text |-> <<>>,                          next |-> "end"],
      [text |-> <<" ">>,                       next |-> "end"],
      [text |-> <<"\n">>,                      next |-> "end"],
      [text |-> <<" ","t","h","e","r","e">>,   next |-> "space"],
      [text |-> <<"\t","x"," ">>,              next |-> "space"],
      [text |-> <<" ","?">>,                   next |-> "space"],
      [text |-> <<"?">>,                       next |-> "question"],
      [text |-> <<"?","?"," ">>,               next |-> "question"],
      [text |-> <<"!">>,                       next |-> "other"],
      [text |-> <<"s">>,                       next |-> "other"] }

\* words that are no greeting phrase, and start with none
OtherWords ==
    { <<"h","e","l","p">>, <<"g","o","o","d","b","y","e">>,
      <<"h","o","w">>, <<"w","h","a","t">> }

QueryWords == Salutations \cup HowAreYou \cup ForeignSalutations \cup OtherWords

toUpperChar(c) ==
    IF \E i \in DOMAIN LowerCase : LowerCase[i] = c
    THEN UpperCase[CHOOSE i \in DOMAIN LowerCase : LowerCase[i] = c]
    ELSE c

\* the word as typed: lower case, or upper case
spell(word, upper) ==
    IF upper THEN [i \in DOMAIN word |-> toUpperChar(word[i])] ELSE word

NotClassified ==
    [run |-> FALSE, prefix |-> [text |-> <<>>, blank |-> TRUE], word |-> <<>>,
     upper |-> FALSE, suffix |-> [text |-> <<>>, next |-> "end"],
     result |-> FALSE]

(***************************************************************************)
(* State of the chat page and of the logging route.                        *)
(***************************************************************************)
\* chat requests the page may have pending or finished, over its life
MaxTurns == 2

VARIABLES
    input,              \* input of useChat
    isLoading,          \* isLoading of useChat
    messages,           \* messages of useChat
    showButtons,        \* state showButtons
    instructionsShown,  \* state instructionsShown
    isQuestionSelected, \* state isQuestionSelected
    pageError,          \* state error
    currentQuestion,    \* state currentQuestion
    currentResponse,    \* state currentResponse
    timers,             \* pending setTimeout(requestSubmit, 0) callbacks
    requests,           \* the chat requests triggered, with their progress
    logCalls            \* the requests the page has sent to /api/logging

pageVars == << input, isLoading, messages, showButtons, instructionsShown,
               isQuestionSelected, pageError, currentQuestion, currentResponse,
               timers, requests, logCalls >>

Begin        == <<"B","e","g","i","n">>
Instructions == <<"I","n","s","t","r","u","c","t","i","o","n","s">>

\* what the user may type into the input field
TypedTexts == { <<>>, <<" ">>, Hello }

\* what /api/stt may return as data.text
Transcriptions == { SayHi }

\* const [userId] = useState(() => uuidv4())
SessionUserId == "uuid-of-this-page"

PageInit ==
    /\ input = <<>>
    /\ isLoading = FALSE
    /\ messages = <<>>
    /\ showButtons = TRUE
    /\ instructionsShown = FALSE
    /\ isQuestionSelected = FALSE
    /\ pageError = "null"
    /\ currentQuestion = <<>>
    /\ currentResponse = <<>>
    /\ timers = 0
    /\ requests = <<>>
    /\ logCalls = <<>>

(***************************************************************************)
(* State of one run of the POST of the logging route                       *)
(* (src/app/api/logging/route.ts).                                         *)
(***************************************************************************)
VARIABLES
    logPc,        \* where the run is: idle, json, store, done
    logRequest,   \* the request it was given
    logStored,    \* storeInteraction has resolved
    logEscaped,   \* an exception has left the handler
    logResponse   \* what it returned

loggingVars == << logPc, logRequest, logStored, logEscaped, logResponse >>

\* the bodies a request to /api/logging may carry: text that is no JSON,
\* the JSON null, or a JSON object
LogUserIds == { SessionUserId, "someone-else", "undefined" }

LogBodies ==
    { [kind |-> k, userId |-> "undefined", question |-> <<>>, reply |-> <<>>] :
         k \in {"text", "null"} }
    \cup
    { [kind |-> "object", userId |-> u, question |-> q, reply |-> r] :
         u \in LogUserIds, q \in Queries \cup {Begin}, r \in ModelOutputs }

NoLogRequest == [kind |-> "none", userId |-> "undefined", question |-> <<>>,
                 reply |-> <<>>]

\* NextResponse.json(...): the status and the fields of the body
LogSuccess == [status |-> 200, body |-> { <<"success", "true">> }]

LogFailure == [status |-> 500, body |-> { <<"error", "Failed to log interaction">> }]

NoLogResponse == [status |-> 0, body |-> {}]

LoggingInit ==
    /\ logPc = "idle"
    /\ logRequest = NoLogRequest
    /\ logStored = FALSE
    /\ logEscaped = FALSE
    /\ logResponse = NoLogResponse

(***************************************************************************)
(* State of one run of POST.                                               *)
(***************************************************************************)
VARIABLES
    pc,                 \* the await at which the handler stands
    req,                \* the request being handled
    persona,            \* const persona
    userQuery,          \* const userQuery
    previousMessages,   \* const previousMessages
    greetingResponse,   \* const greetingResponse
    embedding,          \* const embedding
    resultRows,         \* result.rows in findSimilarContent, as row indices
    similarContent,     \* const similarContent
    updatedMessages,    \* const updatedMessages
    streamTextArg,      \* messages given to streamText
    addMemoriesArg,     \* messages given to addMemories
    result,             \* text the completion stream of result carries
    response,           \* the Response returned to the client
    caught,             \* the error logged by the catch block
    calls,              \* number of attempts of each external call
    status              \* outcome of each external call

serverVars == << pc, req, persona, userQuery, previousMessages, greetingResponse,
           embedding, resultRows, similarContent, updatedMessages, streamTextArg,
           addMemoriesArg, result, response, caught, calls, status >>

vars == << serverVars, classifierVars, pageVars, loggingVars >>

\* no Response yet
NoResponse == [kind |-> "none", status |-> 0, body |-> [text |-> <<>>]]

NoRequest == [json |-> FALSE, body |-> <<>>]

Init ==
    /\ pc = "idle"
    /\ req = NoRequest
    /\ persona = "general"
    /\ userQuery = <<>>
    /\ previousMessages = <<>>
    /\ greetingResponse = <<>>
    /\ embedding = <<>>
    /\ resultRows = <<>>
    /\ similarContent = <<>>
    /\ updatedMessages = <<>>
    /\ streamTextArg = <<>>
    /\ addMemoriesArg = <<>>
    /\ result = <<>>
    /\ response = NoResponse
    /\ caught = "none"
    /\ calls = [c \in ExternalCalls |-> 0]
    /\ status = [c \in ExternalCalls |-> "none"]
    /\ classified = NotClassified
    /\ PageInit
    /\ LoggingInit

(***************************************************************************)
(* Pure parts of POST.                                                     *)
(***************************************************************************)
\* persona: rawPersona = 'general' in the destructuring of the body
rawPersonaOf(body) ==
    IF "persona" \in DOMAIN body THEN body.persona ELSE "general"

personaOf(body) ==
    IF isValidPersona(rawPersonaOf(body)) THEN rawPersonaOf(body) ELSE "general"

\* messages.slice(0, -1)
sliceAllButLast(ms) == SubSeq(ms, 1, Len(ms) - 1)

\* the exception lines 167-173 throw before any provider is called, if any:
\* req.json() on a body that is not JSON, messages.length of undefined,
\* .content of undefined, query.trim of undefined
earlyError(r) ==
    CASE ~r.json                        -> "SyntaxError"
      [] "messages" \notin DOMAIN r.body -> "TypeError"
      [] r.body.messages = <<>>         -> "TypeError"
      [] "content" \notin DOMAIN r.body.messages[Len(r.body.messages)]
                                        -> "TypeError"
      [] OTHER                          -> "none"

\* a catch block that forgets the status, which then defaults to 200
catchResponse_defaultStatus(error) ==
    [kind |-> "json", status |-> 200,
     body |-> [error |-> "Internal Server Error"]]

\* a catch block that sends the error it caught
catchResponse_sendsError(error) ==
    [kind |-> "json", status |-> 500, body |-> [error |-> error]]

\* the Response of the catch block
catchResponse(error) ==
    [kind |-> "json", status |-> 500,
     body |-> [error |-> "Internal Server Error"]]

\* result.toDataStreamResponse()
toDataStreamResponse(text) ==
    [kind |-> "stream", status |-> 200, body |-> [text |-> text]]

\* the messages of the streamText call of the greeting branch
greetingStreamMessages(p, prev, q, g) ==
    << [role |-> "system", content |-> SYSTEM_PROMPTS(p)] >>
        \o prev
        \o << [role |-> "user", content |-> q],
              [role |-> "assistant", content |-> g] >>

\* a greeting record that leaves the user turn out
greetingMessages_replyOnly(q, g) ==
    << [role |-> "assistant", content |-> g] >>

greetingMessages(q, g) ==
    << [role |-> "user", content |-> q],
       [role |-> "assistant", content |-> g] >>

\* a message list with the latest user turn put before the history
updatedMessagesOf_latestFirst(systemPrompt, prev, q) ==
    << [role |-> "system", content |-> systemPrompt],
       [role |-> "user", content |-> q] >>
        \o [i \in 1..Len(prev) |->
              [role |-> prev[i].role, content |-> prev[i].content]]

\* updatedMessages of lines 232-239
updatedMessagesOf(systemPrompt, prev, q) ==
    << [role |-> "system", content |-> systemPrompt] >>
        \o [i \in 1..Len(prev) |->
              [role |-> prev[i].role, content |-> prev[i].content]]
        \o << [role |-> "user", content |-> q] >>

\* finalMessages = [...updatedMessages]
finalMessagesOf(updated) == updated

(***************************************************************************)
(* The handler, one action per stretch of code between two awaits.         *)
(***************************************************************************)
attempt(c) ==
    /\ calls' = [calls EXCEPT ![c] = @ + 1]
    /\ status' = [status EXCEPT ![c] = "pending"]

settleAndAttempt(done, c) ==
    /\ calls' = [calls EXCEPT ![c] = @ + 1]
    /\ status' = [status EXCEPT ![done] = "ok", ![c] = "pending"]

\* catch (error) { ... return new Response(...) }
catch(error) ==
    /\ caught' = error
    /\ response' = catchResponse(error)
    /\ pc' = "done"

\* a request arrives: POST starts and awaits req.json().  A run of POST
\* shares no state with any other run, so one run is modelled.
Receive ==
    /\ pc = "idle"
    /\ \E r \in Requests : req' = r
    /\ pc' = "json"
    /\ UNCHANGED << resultRows, persona, userQuery, previousMessages,
                    greetingResponse, embedding, similarContent, updatedMessages,
                    streamTextArg, addMemoriesArg, result, response, caught,
                    calls, status >>
    /\ UNCHANGED << classifierVars, pageVars, loggingVars >>

\* lines 167-173 throw
ParseFail ==
    /\ pc = "json"
    /\ earlyError(req) # "none"
    /\ persona' = IF req.json THEN personaOf(req.body) ELSE persona
    /\ previousMessages' =
          IF req.json /\ "messages" \in DOMAIN req.body /\ req.body.messages # <<>>
          THEN sliceAllButLast(req.body.messages) ELSE previousMessages
    /\ catch(earlyError(req))
    /\ UNCHANGED << resultRows, req, userQuery, greetingResponse, embedding, similarContent,
                    updatedMessages, streamTextArg, addMemoriesArg, result,
                    calls, status >>
    /\ UNCHANGED << classifierVars, pageVars, loggingVars >>

\* lines 167-197: the query is a greeting, streamText is called
GreetingBranch ==
    /\ pc = "json"
    /\ earlyError(req) = "none"
    /\ LET ms == req.body.messages
           q  == ms[Len(ms)].content
       IN  /\ isGreeting(q)
           /\ persona' = personaOf(req.body)
           /\ userQuery' = q
           /\ previousMessages' = sliceAllButLast(ms)
           /\ \E g \in getGreetingResponse :
                /\ greetingResponse' = g
                /\ streamTextArg' =
                      greetingStreamMessages(personaOf(req.body),
                                             sliceAllButLast(ms), q, g)
    /\ attempt("completion")
    /\ pc' = "greetingStream"
    /\ UNCHANGED << resultRows, req, embedding, similarContent, updatedMessages,
                    addMemoriesArg, result, response, caught >>
    /\ UNCHANGED << classifierVars, pageVars, loggingVars >>

\* a regular branch taken without looking at isGreeting
RegularBranch_unconditional ==
    /\ pc = "json"
    /\ earlyError(req) = "none"
    /\ LET ms == req.body.messages
           q  == ms[Len(ms)].content
       IN  /\ persona' = personaOf(req.body)
           /\ userQuery' = q
           /\ previousMessages' = sliceAllButLast(ms)
    /\ attempt("embedding")
    /\ pc' = "embedding"
    /\ UNCHANGED << resultRows, req, greetingResponse, embedding, similarContent,
                    updatedMessages, streamTextArg, addMemoriesArg, result,
                    response, caught >>
    /\ UNCHANGED << classifierVars, pageVars, loggingVars >>

\* lines 167-173, 213-218: not a greeting, getQueryEmbedding is called
RegularBranch ==
    /\ pc = "json"
    /\ earlyError(req) = "none"
    /\ LET ms == req.body.messages
           q  == ms[Len(ms)].content
       IN  /\ ~isGreeting(q)
           /\ persona' = personaOf(req.body)
           /\ userQuery' = q
           /\ previousMessages' = sliceAllButLast(ms)
    /\ attempt("embedding")
    /\ pc' = "embedding"
    /\ UNCHANGED << resultRows, req, greetingResponse, embedding, similarContent,
                    updatedMessages, streamTextArg, addMemoriesArg, result,
                    response, caught >>
    /\ UNCHANGED << classifierVars, pageVars, loggingVars >>

\* line 178 resolves; lines 199-207: addMemories is called
GreetingStreamOk ==
    /\ pc = "greetingStream"
    /\ \E text \in ModelOutputs : result' = text
    /\ addMemoriesArg' =
          previousMessages \o greetingMessages(userQuery, greetingResponse)
    /\ settleAndAttempt("completion", "memory")
    /\ pc' = "greetingMemory"
    /\ UNCHANGED << resultRows, req, persona, userQuery, previousMessages, greetingResponse,
                    embedding, similarContent, updatedMessages, streamTextArg,
                    response, caught >>
    /\ UNCHANGED << classifierVars, pageVars, loggingVars >>

\* line 178 rejects
GreetingStreamFail ==
    /\ pc = "greetingStream"
    /\ \E error \in ProviderErrors : catch(error)
    /\ status' = [status EXCEPT !["completion"] = "failed"]
    /\ UNCHANGED << resultRows, req, persona, userQuery, previousMessages, greetingResponse,
                    embedding, similarContent, updatedMessages, streamTextArg,
                    addMemoriesArg, result, calls >>
    /\ UNCHANGED << classifierVars, pageVars, loggingVars >>

\* line 204 resolves; lines 209-210
GreetingMemoryOk ==
    /\ pc = "greetingMemory"
    /\ status' = [status EXCEPT !["memory"] = "ok"]
    /\ response' = toDataStreamResponse(result)
    /\ pc' = "done"
    /\ UNCHANGED << resultRows, req, persona, userQuery, previousMessages, greetingResponse,
                    embedding, similarContent, updatedMessages, streamTextArg,
                    addMemoriesArg, result, caught, calls >>
    /\ UNCHANGED << classifierVars, pageVars, loggingVars >>

\* line 204 rejects
GreetingMemoryFail ==
    /\ pc = "greetingMemory"
    /\ \E error \in ProviderErrors : catch(error)
    /\ status' = [status EXCEPT !["memory"] = "failed"]
    /\ UNCHANGED << resultRows, req, persona, userQuery, previousMessages, greetingResponse,
                    embedding, similarContent, updatedMessages, streamTextArg,
                    addMemoriesArg, result, calls >>
    /\ UNCHANGED << classifierVars, pageVars, loggingVars >>

\* line 218 resolves; line 221: findSimilarContent sends its query
EmbeddingOk ==
    /\ pc = "embedding"
    /\ \E e \in Embeddings : embedding' = e
    /\ settleAndAttempt("embedding", "query")
    /\ pc' = "query"
    /\ UNCHANGED << resultRows, req, persona, userQuery, previousMessages, greetingResponse,
                    similarContent, updatedMessages, streamTextArg,
                    addMemoriesArg, result, response, caught >>
    /\ UNCHANGED << classifierVars, pageVars, loggingVars >>

\* a rejected embedding call that is tried a second time
EmbeddingFail_retriesOnce ==
    /\ pc = "embedding"
    /\ IF calls["embedding"] < 2
       THEN /\ attempt("embedding")
            /\ UNCHANGED << pc, response, caught >>
       ELSE /\ \E error \in ProviderErrors : catch(error)
            /\ status' = [status EXCEPT !["embedding"] = "failed"]
            /\ UNCHANGED calls
    /\ UNCHANGED << resultRows, req, persona, userQuery, previousMessages, greetingResponse,
                    embedding, similarContent, updatedMessages, streamTextArg,
                    addMemoriesArg, result >>
    /\ UNCHANGED << classifierVars, pageVars, loggingVars >>

\* line 218 rejects
EmbeddingFail ==
    /\ pc = "embedding"
    /\ \E error \in ProviderErrors : catch(error)
    /\ status' = [status EXCEPT !["embedding"] = "failed"]
    /\ UNCHANGED << resultRows, req, persona, userQuery, previousMessages, greetingResponse,
                    embedding, similarContent, updatedMessages, streamTextArg,
                    addMemoriesArg, result, calls >>
    /\ UNCHANGED << classifierVars, pageVars, loggingVars >>

\* line 129 resolves; lines 130, 224-250: streamText is called
QueryOk ==
    /\ pc = "query"
    /\ \E rows \in queryRows(embedding) :
         /\ resultRows' = rows
         /\ similarContent' = contextOf(rows)
         /\ updatedMessages' =
               updatedMessagesOf(systemPromptOf(persona, contextOf(rows)),
                                 previousMessages, userQuery)
         /\ streamTextArg' =
               updatedMessagesOf(systemPromptOf(persona, contextOf(rows)),
                                 previousMessages, userQuery)
    /\ settleAndAttempt("query", "completion")
    /\ pc' = "stream"
    /\ UNCHANGED << req, persona, userQuery, previousMessages, greetingResponse,
                    embedding, addMemoriesArg, result, response, caught >>
    /\ UNCHANGED << classifierVars, pageVars, loggingVars >>

\* a rejected vector store query after which the completion is still called,
\* with no context
QueryFail_continuesWithoutContext ==
    /\ pc = "query"
    /\ similarContent' = <<>>
    /\ updatedMessages' =
          updatedMessagesOf(systemPromptOf(persona, <<>>),
                            previousMessages, userQuery)
    /\ streamTextArg' =
          updatedMessagesOf(systemPromptOf(persona, <<>>),
                            previousMessages, userQuery)
    /\ calls' = [calls EXCEPT !["completion"] = @ + 1]
    /\ status' = [status EXCEPT !["query"] = "failed",
                                 !["completion"] = "pending"]
    /\ pc' = "stream"
    /\ UNCHANGED << resultRows, req, persona, userQuery, previousMessages,
                    greetingResponse, embedding, addMemoriesArg, result,
                    response, caught >>
    /\ UNCHANGED << classifierVars, pageVars, loggingVars >>

\* line 129 rejects
QueryFail ==
    /\ pc = "query"
    /\ \E error \in ProviderErrors : catch(error)
    /\ status' = [status EXCEPT !["query"] = "failed"]
    /\ UNCHANGED << resultRows, req, persona, userQuery, previousMessages, greetingResponse,
                    embedding, similarContent, updatedMessages, streamTextArg,
                    addMemoriesArg, result, calls >>
    /\ UNCHANGED << classifierVars, pageVars, loggingVars >>

\* line 245 resolves; lines 252-264: addMemories is called
StreamOk ==
    /\ pc = "stream"
    /\ \E text \in ModelOutputs : result' = text
    /\ addMemoriesArg' = finalMessagesOf(updatedMessages)
    /\ settleAndAttempt("completion", "memory")
    /\ pc' = "memory"
    /\ UNCHANGED << resultRows, req, persona, userQuery, previousMessages, greetingResponse,
                    embedding, similarContent, updatedMessages, streamTextArg,
                    response, caught >>
    /\ UNCHANGED << classifierVars, pageVars, loggingVars >>

\* line 245 rejects
StreamFail ==
    /\ pc = "stream"
    /\ \E error \in ProviderErrors : catch(error)
    /\ status' = [status EXCEPT !["completion"] = "failed"]
    /\ UNCHANGED << resultRows, req, persona, userQuery, previousMessages, greetingResponse,
                    embedding, similarContent, updatedMessages, streamTextArg,
                    addMemoriesArg, result, calls >>
    /\ UNCHANGED << classifierVars, pageVars, loggingVars >>

\* line 261 resolves; lines 266-267
MemoryOk ==
    /\ pc = "memory"
    /\ status' = [status EXCEPT !["memory"] = "ok"]
    /\ response' = toDataStreamResponse(result)
    /\ pc' = "done"
    /\ UNCHANGED << resultRows, req, persona, userQuery, previousMessages, greetingResponse,
                    embedding, similarContent, updatedMessages, streamTextArg,
                    addMemoriesArg, result, caught, calls >>
    /\ UNCHANGED << classifierVars, pageVars, loggingVars >>

\* line 261 rejects
MemoryFail ==
    /\ pc = "memory"
    /\ \E error \in ProviderErrors : catch(error)
    /\ status' = [status EXCEPT !["memory"] = "failed"]
    /\ UNCHANGED << resultRows, req, persona, userQuery, previousMessages, greetingResponse,
                    embedding, similarContent, updatedMessages, streamTextArg,
                    addMemoriesArg, result, calls >>
    /\ UNCHANGED << classifierVars, pageVars, loggingVars >>

\* the steps that need nothing from the memory store
HandlerStep ==
    \/ ParseFail
    \/ GreetingBranch
    \/ RegularBranch
    \/ GreetingStreamOk
    \/ GreetingStreamFail
    \/ EmbeddingOk
    \/ EmbeddingFail
    \/ QueryOk
    \/ QueryFail
    \/ StreamOk
    \/ StreamFail

\* the steps that wait for the memory store to settle addMemories
MemorySettles ==
    \/ GreetingMemoryOk
    \/ GreetingMemoryFail
    \/ MemoryOk
    \/ MemoryFail

Next == Receive \/ HandlerStep \/ MemorySettles

Spec == Init /\ [][Next]_vars

\* the handler runs whenever it can; the memory store may never answer
FairSpec == Spec /\ WF_vars(HandlerStep)

(***************************************************************************)
(* isGreeting applied to one string.                                       *)
(***************************************************************************)
Classify ==
    /\ ~classified.run
    /\ \E pre \in QueryPrefixes, w \in QueryWords, up \in BOOLEAN,
          suf \in QuerySuffixes :
         classified' =
             [run |-> TRUE, prefix |-> pre, word |-> w, upper |-> up,
              suffix |-> suf,
              result |-> isGreeting(pre.text \o spell(w, up) \o suf.text)]
    /\ UNCHANGED << serverVars, pageVars, loggingVars >>

ClassifierSpec == Init /\ [][Classify]_vars

(***************************************************************************)
(* The chat page (ChatPage and its useChat hook).  An event handler runs   *)
(* against the state of the render it was created in, and every handler    *)
(* here is called from the latest render, so an action reads the current   *)
(* state; the callbacks useChat is given are those of the render in which  *)
(* the request was triggered, which is why a request carries the input     *)
(* its onFinish will read.                                                 *)
(***************************************************************************)
userMessage(content) == [role |-> "user", content |-> content]

assistantMessage(content) == [role |-> "assistant", content |-> content]

\* disabled={isLoading || (!input.trim() && !isQuestionSelected)}
submitDisabled == isLoading \/ (trim(input) = <<>> /\ ~isQuestionSelected)

\* a chat request as triggered by handleSubmit
chatRequest(content) ==
    [question |-> content, finishInput |-> content, phase |-> "sent",
     reply |-> <<>>]

\* the requests whose response has not settled
inFlight == { i \in 1..Len(requests) : requests[i].phase \in {"sent", "streaming"} }

\* handleSubmit of useChat: appends the user message, triggers the request
\* and clears the input
handleSubmit ==
    IF input = <<>>
    THEN UNCHANGED << input, isLoading, messages, requests >>
    ELSE /\ messages' = Append(messages, userMessage(input))
         /\ requests' = Append(requests, chatRequest(input))
         /\ isLoading' = TRUE
         /\ input' = <<>>

enhancedSubmit_ignoresLoading ==
    IF trim(input) = <<>>
    THEN UNCHANGED << input, isLoading, messages, requests, currentQuestion >>
    ELSE /\ currentQuestion' = trim(input)
         /\ handleSubmit

enhancedSubmit ==
    IF trim(input) = <<>> \/ isLoading
    THEN UNCHANGED << input, isLoading, messages, requests, currentQuestion >>
    ELSE /\ currentQuestion' = trim(input)
         /\ handleSubmit

\* the submit would trigger a request although MaxTurns were triggered
beyondMaxTurns == input # <<>> /\ Len(requests) >= MaxTurns

\* customHandleInputChange
TypeInput ==
    /\ \E text \in TypedTexts :
          /\ input' = text
          /\ isQuestionSelected' = (trim(text) # <<>>)
    /\ UNCHANGED << isLoading, messages, showButtons, instructionsShown,
                    pageError, currentQuestion, currentResponse, timers,
                    requests, logCalls >>
    /\ UNCHANGED << serverVars, classifierVars, loggingVars >>

\* onTranscription of the VoiceRecorder, when /api/stt has answered
Transcribe ==
    /\ \E text \in Transcriptions :
          /\ input' = text
          /\ isQuestionSelected' = TRUE
    /\ UNCHANGED << isLoading, messages, showButtons, instructionsShown,
                    pageError, currentQuestion, currentResponse, timers,
                    requests, logCalls >>
    /\ UNCHANGED << serverVars, classifierVars, loggingVars >>

handleBeginClick ==
    /\ messages = <<>>
    /\ showButtons
    /\ showButtons' = FALSE
    /\ instructionsShown' = FALSE
    /\ input' = Begin
    /\ timers' = timers + 1
    /\ UNCHANGED << isLoading, messages, isQuestionSelected, pageError,
                    currentQuestion, currentResponse, requests, logCalls >>
    /\ UNCHANGED << serverVars, classifierVars, loggingVars >>

handleInstructionsClick ==
    /\ messages = <<>>
    /\ showButtons
    /\ showButtons' = FALSE
    /\ instructionsShown' = TRUE
    /\ input' = Instructions
    /\ timers' = timers + 1
    /\ UNCHANGED << isLoading, messages, isQuestionSelected, pageError,
                    currentQuestion, currentResponse, requests, logCalls >>
    /\ UNCHANGED << serverVars, classifierVars, loggingVars >>

handlePostInstructionsBegin ==
    /\ instructionsShown
    /\ Len(messages) > 0
    /\ messages[Len(messages)].role = "assistant"
    /\ showButtons' = FALSE
    /\ instructionsShown' = FALSE
    /\ input' = Begin
    /\ timers' = timers + 1
    /\ UNCHANGED << isLoading, messages, isQuestionSelected, pageError,
                    currentQuestion, currentResponse, requests, logCalls >>
    /\ UNCHANGED << serverVars, classifierVars, loggingVars >>

\* the callback of setTimeout: formRef.current?.requestSubmit()
RequestSubmit ==
    /\ timers > 0
    /\ ~beyondMaxTurns
    /\ timers' = timers - 1
    /\ enhancedSubmit
    /\ UNCHANGED << showButtons, instructionsShown, isQuestionSelected,
                    pageError, currentResponse, logCalls >>
    /\ UNCHANGED << serverVars, classifierVars, loggingVars >>

\* the user presses the Send button, or Enter in the input field
UserSubmit ==
    /\ ~submitDisabled
    /\ ~beyondMaxTurns
    /\ enhancedSubmit
    /\ UNCHANGED << showButtons, instructionsShown, isQuestionSelected,
                    pageError, currentResponse, timers, logCalls >>
    /\ UNCHANGED << serverVars, classifierVars, loggingVars >>

\* the button of the error message: setError(null)
DismissError ==
    /\ pageError # "null"
    /\ pageError' = "null"
    /\ UNCHANGED << input, isLoading, messages, showButtons, instructionsShown,
                    isQuestionSelected, currentQuestion, currentResponse,
                    timers, requests, logCalls >>
    /\ UNCHANGED << serverVars, classifierVars, loggingVars >>

\* what useChat leaves in messages when a request fails before its stream:
\* the user message is kept or taken back (keepLastMessageOnError)
messagesAfterFailure ==
    { messages, SubSeq(messages, 1, Len(messages) - 1) }

\* fetch('/api/logging', ...) of logUserQuestion
pageLog(turn, question, reply) ==
    [turn |-> turn, userId |-> SessionUserId, question |-> question,
     reply |-> reply]

\* /api/chat answers with a stream: onResponse
ChatResponds(i) ==
    /\ requests[i].phase = "sent"
    /\ \E text \in ModelOutputs :
          /\ requests' = [requests EXCEPT ![i].phase = "streaming",
                                          ![i].reply = text]
          /\ messages' = Append(messages, assistantMessage(text))
    /\ pageError' = "null"
    /\ isQuestionSelected' = FALSE
    /\ UNCHANGED << input, isLoading, showButtons, instructionsShown,
                    currentQuestion, currentResponse, timers, logCalls >>
    /\ UNCHANGED << serverVars, classifierVars, loggingVars >>

\* /api/chat answers 500: onResponse, then onError
ChatRespondsError(i) ==
    /\ requests[i].phase = "sent"
    /\ requests' = [requests EXCEPT ![i].phase = "failed"]
    /\ messages' \in messagesAfterFailure
    /\ isQuestionSelected' = FALSE
    /\ pageError' = "Failed to process your request. Please try again."
    /\ isLoading' = FALSE
    /\ UNCHANGED << input, showButtons, instructionsShown, currentQuestion,
                    currentResponse, timers, logCalls >>
    /\ UNCHANGED << serverVars, classifierVars, loggingVars >>

\* the fetch of /api/chat rejects: onError
ChatFetchFails(i) ==
    /\ requests[i].phase = "sent"
    /\ requests' = [requests EXCEPT ![i].phase = "failed"]
    /\ messages' \in messagesAfterFailure
    /\ pageError' = "Failed to process your request. Please try again."
    /\ isLoading' = FALSE
    /\ UNCHANGED << input, showButtons, instructionsShown, isQuestionSelected,
                    currentQuestion, currentResponse, timers, logCalls >>
    /\ UNCHANGED << serverVars, classifierVars, loggingVars >>

StreamFinishes_readsCurrentInput(i) ==
    /\ requests[i].phase = "streaming"
    /\ requests' = [requests EXCEPT ![i].phase = "finished"]
    /\ currentQuestion' = input
    /\ currentResponse' = requests[i].reply
    /\ logCalls' = Append(logCalls, pageLog(i, input, requests[i].reply))
    /\ isLoading' = FALSE
    /\ UNCHANGED << input, messages, showButtons, instructionsShown,
                    isQuestionSelected, pageError, timers >>
    /\ UNCHANGED << serverVars, classifierVars, loggingVars >>

\* the stream ends: onFinish, up to the fetch of logUserQuestion
StreamFinishes(i) ==
    /\ requests[i].phase = "streaming"
    /\ requests' = [requests EXCEPT ![i].phase = "finished"]
    /\ currentQuestion' = requests[i].finishInput
    /\ currentResponse' = requests[i].reply
    /\ logCalls' = Append(logCalls, pageLog(i, requests[i].finishInput,
                                            requests[i].reply))
    /\ isLoading' = FALSE
    /\ UNCHANGED << input, messages, showButtons, instructionsShown,
                    isQuestionSelected, pageError, timers >>
    /\ UNCHANGED << serverVars, classifierVars, loggingVars >>

StreamBreaks_logsWhatArrived(i) ==
    /\ requests[i].phase = "streaming"
    /\ requests' = [requests EXCEPT ![i].phase = "failed"]
    /\ pageError' = "Failed to process your request. Please try again."
    /\ logCalls' = Append(logCalls, pageLog(i, requests[i].finishInput,
                                            requests[i].reply))
    /\ isLoading' = FALSE
    /\ UNCHANGED << input, messages, showButtons, instructionsShown,
                    isQuestionSelected, currentQuestion, currentResponse,
                    timers >>
    /\ UNCHANGED << serverVars, classifierVars, loggingVars >>

\* the stream fails before its end: onError
StreamBreaks(i) ==
    /\ requests[i].phase = "streaming"
    /\ requests' = [requests EXCEPT ![i].phase = "failed"]
    /\ pageError' = "Failed to process your request. Please try again."
    /\ isLoading' = FALSE
    /\ UNCHANGED << input, messages, showButtons, instructionsShown,
                    isQuestionSelected, currentQuestion, currentResponse,
                    timers, logCalls >>
    /\ UNCHANGED << serverVars, classifierVars, loggingVars >>

PageNext ==
    \/ TypeInput
    \/ Transcribe
    \/ handleBeginClick
    \/ handleInstructionsClick
    \/ handlePostInstructionsBegin
    \/ RequestSubmit
    \/ UserSubmit
    \/ DismissError
    \/ \E i \in 1..Len(requests) : ChatResponds(i)
    \/ \E i \in 1..Len(requests) : ChatRespondsError(i)
    \/ \E i \in 1..Len(requests) : ChatFetchFails(i)
    \/ \E i \in 1..Len(requests) : StreamFinishes(i)
    \/ \E i \in 1..Len(requests) : StreamBreaks(i)

PageSpec == Init /\ [][PageNext]_vars

(***************************************************************************)
(* The logging route, one action per stretch of code between two awaits.   *)
(***************************************************************************)
\* POST is called and awaits request.json()
LoggingReceive ==
    /\ logPc = "idle"
    /\ \E body \in LogBodies : logRequest' = body
    /\ logPc' = "json"
    /\ UNCHANGED << logStored, logEscaped, logResponse >>
    /\ UNCHANGED << serverVars, classifierVars, pageVars >>

\* request.json() rejects, or resolves to null, which cannot be destructured
LoggingParseFail ==
    /\ logPc = "json"
    /\ logRequest.kind \in {"text", "null"}
    /\ logResponse' = LogFailure
    /\ logPc' = "done"
    /\ UNCHANGED << logRequest, logStored, logEscaped >>
    /\ UNCHANGED << serverVars, classifierVars, pageVars >>

\* request.json() resolves; storeInteraction is called and awaited
LoggingParsed ==
    /\ logPc = "json"
    /\ logRequest.kind = "object"
    /\ logPc' = "store"
    /\ UNCHANGED << logRequest, logStored, logEscaped, logResponse >>
    /\ UNCHANGED << serverVars, classifierVars, pageVars >>

\* storeInteraction resolves
LoggingStoreOk ==
    /\ logPc = "store"
    /\ logStored' = TRUE
    /\ logResponse' = LogSuccess
    /\ logPc' = "done"
    /\ UNCHANGED << logRequest, logEscaped >>
    /\ UNCHANGED << serverVars, classifierVars, pageVars >>

LoggingStoreFail_uncaught ==
    /\ logPc = "store"
    /\ logEscaped' = TRUE
    /\ logPc' = "done"
    /\ UNCHANGED << logRequest, logStored, logResponse >>
    /\ UNCHANGED << serverVars, classifierVars, pageVars >>

\* storeInteraction rejects
LoggingStoreFail ==
    /\ logPc = "store"
    /\ logResponse' = LogFailure
    /\ logPc' = "done"
    /\ UNCHANGED << logRequest, logStored, logEscaped >>
    /\ UNCHANGED << serverVars, classifierVars, pageVars >>

LoggingNext ==
    \/ LoggingReceive
    \/ LoggingParseFail
    \/ LoggingParsed
    \/ LoggingStoreOk
    \/ LoggingStoreFail

LoggingSpec == Init /\ [][LoggingNext]_vars

(***************************************************************************)
(* Properties.                                                             *)
(***************************************************************************)
\* the request has a latest message with a content
HasLatestContent == pc # "idle" /\ earlyError(req) = "none"

LatestContent == req.body.messages[Len(req.body.messages)].content

IsGreetingRequest == HasLatestContent /\ isGreeting(LatestContent)

GenericError ==
    [kind |-> "json", status |-> 500,
     body |-> [error |-> "Internal Server Error"]]

\* C1: in a request whose latest message content isGreeting classifies as a
\* greeting, the embedding provider and the vector store are never called.
C1_GreetingSkipsRetrieval ==
    IsGreetingRequest =>
        /\ calls["embedding"] = 0 /\ status["embedding"] = "none"
        /\ calls["query"] = 0     /\ status["query"] = "none"
        /\ embedding = <<>>

C1_Witness ==
    /\ IsGreetingRequest
    /\ pc = "done"
    /\ response.kind = "stream"
    /\ calls["completion"] = 1

\* C2: the system message given to the completion call starts with the
\* roleplay template when the request's persona is exactly "roleplay", and with
\* the general template for every other persona value, a missing one included.
C2_PersonaFallback ==
    streamTextArg # <<>> =>
        LET expected ==
                IF "persona" \in DOMAIN req.body /\ req.body.persona = "roleplay"
                THEN "roleplay" ELSE "general"
        IN  /\ persona = expected
            /\ streamTextArg[1].role = "system"
            /\ startsWith(streamTextArg[1].content, SYSTEM_PROMPTS(expected))

C2_Witness ==
    /\ streamTextArg # <<>>
    /\ "persona" \in DOMAIN req.body
    /\ req.body.persona = "spanish"
    /\ streamTextArg[1].content[1] = "<SYSTEM_PROMPTS.general>"

\* C3: on a successful request, the sequence given to addMemories is the
\* sequence given to streamText, in order, followed by one assistant turn.
C3_RoundTrip ==
    (pc = "done" /\ response.kind = "stream") =>
        /\ Len(addMemoriesArg) = Len(streamTextArg) + 1
        /\ SubSeq(addMemoriesArg, 1, Len(streamTextArg)) = streamTextArg
        /\ addMemoriesArg[Len(addMemoriesArg)].role = "assistant"

\* C4: on the greeting path, the sequence given to addMemories is the
\* request's messages but the last, then a user message with the greeting, then
\* an assistant message with one of the fixed replies, and nothing else.
C4_GreetingMemory ==
    (IsGreetingRequest /\ calls["memory"] > 0) =>
        \E g \in { greetings[i] : i \in 1..5 } :
            /\ g = greetingResponse
            /\ addMemoriesArg =
                  SubSeq(req.body.messages, 1, Len(req.body.messages) - 1)
                    \o << [role |-> "user", content |-> LatestContent],
                          [role |-> "assistant", content |-> g] >>

C4_Witness ==
    /\ IsGreetingRequest
    /\ pc = "done"
    /\ response.kind = "stream"
    /\ Len(req.body.messages) > 1
    /\ Len(addMemoriesArg) = Len(req.body.messages) + 1

\* C5: the text streamed to the client for a greeting is one of the five
\* fixed replies, the one recorded as the assistant turn in memory.
C5_GreetingReplyStreamed ==
    (IsGreetingRequest /\ response.kind = "stream") =>
        /\ response.body.text \in { greetings[i] : i \in 1..5 }
        /\ response.body.text = addMemoriesArg[Len(addMemoriesArg)].content

\* the body is not JSON, or has no messages field, or an empty one
Malformed ==
    /\ pc # "idle"
    /\ \/ ~req.json
       \/ "messages" \notin DOMAIN req.body
       \/ req.body.messages = <<>>

\* C6: a malformed request makes no external call, and the response it ends
\* with is the JSON error of status 500.
C6_MalformedRequest ==
    Malformed =>
        /\ \A c \in ExternalCalls : calls[c] = 0 /\ status[c] = "none"
        /\ pc \in {"json", "done"}
        /\ pc = "done" => (response.kind = "json" /\ response.status = 500)

C6_Witness ==
    /\ Malformed
    /\ req.json
    /\ "messages" \notin DOMAIN req.body
    /\ pc = "done"
    /\ response.status = 500

\* C7: once the completion stream was initiated, the request ends with the
\* streamed response, whether or not the memory write fails.
C7_MemoryFailureNotSurfaced ==
    (pc = "done" /\ status["completion"] = "ok") => response.kind = "stream"

\* C8: once addMemories is awaited, the streamed response is eventually
\* returned unless the memory write completes; that is, it is returned even
\* if the memory write never completes.
C8_MemoryNeverBlocks ==
    [](status["memory"] = "pending" =>
          <>(response.kind = "stream" \/ status["memory"] # "pending"))

\* C9: when the embedding, the vector store query or the completion call
\* fails, the request has ended with the one generic JSON error of status 500,
\* which carries nothing of the failure; the failure itself is only logged.
C9_UpstreamFailureGeneric ==
    (\E c \in {"embedding", "query", "completion"} : status[c] = "failed") =>
        /\ pc = "done"
        /\ response = GenericError
        /\ caught \in ProviderErrors
        /\ response.body.error # caught

C9_Witness ==
    /\ status["completion"] = "failed"
    /\ status["query"] = "ok"
    /\ pc = "done"
    /\ response.status = 500

\* C10: each external call is attempted at most once in a request, a failed
\* call leaves the request ended, and a regular request that ends with the
\* stream has attempted each of the four exactly once.
C10_NoRetries ==
    /\ \A c \in ExternalCalls :
         /\ calls[c] <= 1
         /\ status[c] = "failed" => (calls[c] = 1 /\ pc = "done")
         /\ status[c] = "none" <=> calls[c] = 0
    /\ (HasLatestContent /\ ~isGreeting(LatestContent)
          /\ pc = "done" /\ response.kind = "stream") =>
            \A c \in ExternalCalls : calls[c] = 1 /\ status[c] = "ok"

C10_Witness ==
    /\ HasLatestContent
    /\ ~isGreeting(LatestContent)
    /\ pc = "done"
    /\ response.kind = "stream"
    /\ \A c \in ExternalCalls : calls[c] = 1

\* C11: the context findSimilarContent returns is the join of the passages of
\* the returned rows, which are at most 5, each of similarity above 0.7
\* (100 * cos^2 > 49 with a positive dot product), in descending similarity.
C11_RetrievedContext ==
    status["query"] = "ok" =>
        LET v(k)  == documents_2[resultRows[k]].vector
            d(k)  == dot(embedding, v(k))
            n(k)  == dot(v(k), v(k))
        IN  /\ Len(resultRows) <= 5
            /\ \A k \in 1..Len(resultRows) :
                 /\ d(k) > 0
                 /\ 100 * d(k) * d(k) > 49 * dot(embedding, embedding) * n(k)
            /\ \A k \in 1..(Len(resultRows) - 1) :
                 d(k + 1) * d(k + 1) * n(k) <= d(k) * d(k) * n(k + 1)
            /\ similarContent =
                  join([k \in 1..Len(resultRows) |->
                          documents_2[resultRows[k]].contents], <<"\n", "\n">>)

\* five rows returned although more than five passages clear the threshold
C11_Witness ==
    /\ status["query"] = "ok"
    /\ Len(resultRows) = 5
    /\ Cardinality({ i \in DOMAIN documents_2 :
                       /\ dot(embedding, documents_2[i].vector) > 0
                       /\ 100 * dot(embedding, documents_2[i].vector)
                              * dot(embedding, documents_2[i].vector)
                            > 49 * dot(embedding, embedding)
                                 * dot(documents_2[i].vector, documents_2[i].vector) }) > 5

\* C12: when the vector store returns no row, the system message given to
\* the completion call is the persona template followed by the "Documentation
\* Context: " label and nothing after it, the completion call is made, and the
\* request ends in an error only if the completion or the memory call failed.
C12_EmptyContext ==
    (status["query"] = "ok" /\ resultRows = <<>>) =>
        /\ persona \in {"general", "roleplay"}
        /\ similarContent = <<>>
        /\ streamTextArg[1] =
              [role |-> "system",
               content |-> SYSTEM_PROMPTS(persona) \o
                   <<"\n","\n","D","o","c","u","m","e","n","t","a","t","i","o",
                     "n"," ","C","o","n","t","e","x","t",":"," ">>]
        /\ calls["completion"] = 1
        /\ response.kind = "json" =>
              (status["completion"] = "failed" \/ status["memory"] = "failed")

C12_Witness ==
    /\ status["query"] = "ok"
    /\ resultRows = <<>>
    /\ persona = "roleplay"
    /\ pc = "done"
    /\ response.kind = "stream"

\* C13: in a request that is not a greeting, with messages m1..mn, the
\* completion call gets one system message, then m1..m(n-1) with their roles
\* and contents, in order, then one user message with the content of mn.
C13_MessageOrder ==
    (HasLatestContent /\ ~isGreeting(LatestContent) /\ calls["completion"] > 0) =>
        LET ms == req.body.messages
            n  == Len(req.body.messages)
        IN  /\ Len(streamTextArg) = n + 1
            /\ streamTextArg[1].role = "system"
            /\ \A i \in 1..(n - 1) :
                 /\ streamTextArg[i + 1].role = ms[i].role
                 /\ streamTextArg[i + 1].content = ms[i].content
            /\ streamTextArg[n + 1].role = "user"
            /\ streamTextArg[n + 1].content = ms[n].content

C13_Witness ==
    /\ HasLatestContent
    /\ ~isGreeting(LatestContent)
    /\ calls["completion"] = 1
    /\ Len(req.body.messages) = 3
    /\ req.body.messages[1] # req.body.messages[2]

\* C17: the vector store query is issued only after the embedding call
\* succeeded, the completion call of a request that is not a greeting only
\* after the query succeeded, the memory call only after the completion call
\* succeeded; at most one call is pending at a time; and after a failed
\* embedding or query no completion or memory call has been issued.
C17_CallOrder ==
    /\ calls["query"] > 0 => status["embedding"] = "ok"
    /\ (calls["completion"] > 0 /\ ~IsGreetingRequest) =>
          (status["embedding"] = "ok" /\ status["query"] = "ok")
    /\ calls["memory"] > 0 => status["completion"] = "ok"
    /\ Cardinality({ c \in ExternalCalls : status[c] = "pending" }) <= 1
    /\ (status["embedding"] = "failed" \/ status["query"] = "failed") =>
          (calls["completion"] = 0 /\ calls["memory"] = 0)

C17_Witness ==
    /\ HasLatestContent
    /\ ~isGreeting(LatestContent)
    /\ status["embedding"] = "ok"
    /\ status["query"] = "failed"
    /\ pc = "done"

\* C16: isGreeting is true exactly when nothing but white space stands
\* before one of the fixed phrases, in either case, and the phrase is followed,
\* once the string is trimmed, by its end or a white space, or by a question
\* mark for the "how are you" group; a phrase after other text is not detected.
C16_GreetingClassifier ==
    classified.run =>
        ( classified.result <=>
            /\ classified.prefix.blank
            /\ classified.word \in Salutations \cup HowAreYou \cup ForeignSalutations
            /\ \/ classified.suffix.next \in {"end", "space"}
               \/ /\ classified.suffix.next = "question"
                  /\ classified.word \in HowAreYou )

\* a phrase in the middle of a sentence, found not to be a greeting
C16_Witness ==
    /\ classified.run
    /\ classified.prefix.text = <<"s","a","y"," ">>
    /\ classified.word = <<"h","i">>
    /\ classified.suffix.next = "end"
    /\ ~classified.result

\* the calls of /api/logging the page has made for its i-th chat request
logCallsOf(i) == { k \in 1..Len(logCalls) : logCalls[k].turn = i }

\* C14: the page calls /api/logging for a chat turn only once the stream of
\* that turn has finished, and then exactly once: a turn that is still in
\* flight, or that ended in an error, has no call.
C14_LoggedOncePerCompletedTurn ==
    /\ \A k \in 1..Len(logCalls) : logCalls[k].turn \in 1..Len(requests)
    /\ \A i \in 1..Len(requests) :
          Cardinality(logCallsOf(i)) =
              IF requests[i].phase = "finished" THEN 1 ELSE 0

\* one turn whose stream broke after it had started, one that finished
C14_Witness ==
    /\ \E i \in 1..Len(requests) :
          requests[i].phase = "failed" /\ requests[i].reply # <<>>
    /\ \E i \in 1..Len(requests) : requests[i].phase = "finished"
    /\ Len(logCalls) = 1

\* C15: a run of the logging route ends with exactly one response, which is
\* {success: true} when the body was parsed and storeInteraction resolved,
\* and the JSON error with status 500 otherwise; no exception leaves the
\* handler.
C15_LoggingOutcomes ==
    /\ ~logEscaped
    /\ logPc # "done" => logResponse = NoLogResponse
    /\ logPc = "done" =>
          /\ logResponse \in {LogSuccess, LogFailure}
          /\ logResponse = LogSuccess <=>
                (logRequest.kind = "object" /\ logStored)

\* a body that parsed, and storeInteraction rejected
C15_Witness ==
    /\ logPc = "done"
    /\ logRequest.kind = "object"
    /\ ~logStored
    /\ logResponse = LogFailure

\* C18: every call of /api/logging carries the userId of the page, and the
\* content of the user message that was sent for its turn together with the
\* content of the assistant message that answered it.
C18_LoggedPair ==
    \A k \in 1..Len(logCalls) :
        /\ logCalls[k].userId = SessionUserId
        /\ logCalls[k].question = requests[logCalls[k].turn].question
        /\ logCalls[k].reply = requests[logCalls[k].turn].reply
        /\ \E m \in 1..(Len(messages) - 1) :
              /\ messages[m] = userMessage(logCalls[k].question)
              /\ messages[m + 1] = assistantMessage(logCalls[k].reply)

\* two turns logged, the second while the user had typed something else
C18_Witness ==
    /\ Len(logCalls) = 2
    /\ logCalls[1].question = Instructions
    /\ logCalls[2].question = Begin
    /\ input = Hello

\* C19: at most one chat request of the page is in flight, the page shows
\* itself loading while one is, and no request was submitted with an input
\* that is empty or only whitespace.
C19_OneRequestInFlight ==
    /\ Cardinality(inFlight) <= 1
    /\ inFlight # {} => isLoading
    /\ \A i \in 1..Len(requests) : trim(requests[i].question) # <<>>

\* Begin was clicked while the answer to Instructions was streaming, its
\* timer has fired, and no second request was triggered
C19_Witness ==
    /\ Len(requests) = 1
    /\ requests[1].question = Instructions
    /\ requests[1].phase = "streaming"
    /\ ~instructionsShown
    /\ input = Begin
    /\ timers = 0

=============================================================================
